---------------------------- MODULE Spec2Model ----------------------------
(***************************************************************************)
(* MarketMind (src/app.py): the signal-computation routines of the         *)
(* Streamlit script, one handler per tab.                                  *)
(*                                                                         *)
(* Numbers.  The script computes with Python/numpy floats.  A float is     *)
(* modelled as an exact rational [n |-> numerator, d |-> denominator]      *)
(* (d > 0, lowest terms) or as NaN (written 0/0).  Arithmetic propagates   *)
(* NaN and every comparison with NaN is FALSE, as in IEEE-754.  Prices and *)
(* volumes fed to the handlers are positive (or NaN for a missing bar), so *)
(* no pandas division produces an infinity.  Rounding of the binary        *)
(* fractions is not modelled: (3k / 5k) * 100 and (2k / 5k) * 100 are      *)
(* exactly 60.0 and 40.0 in double precision, as they are here.            *)
(***************************************************************************)
EXTENDS Integers, Sequences, FiniteSets, TLC

VARIABLES
    pc,          \* position of the running handler
    fii_L, fii_S, dii_L, dii_S, cli_L, cli_S,   \* position counts (lines 232-237, 182)
    trap,        \* what analyze_smart_money gave its caller (line 260)
    symbol,      \* the argument of fix_ticker
    ticker,      \* the result of fix_ticker
    data,        \* the snapshot fetched (lines 304, 380, 420, 586, 107)
    t_l,         \* the symbols of the running scan (lines 378, 419, 584)
    sens,        \* the sensitivity slider (line 414)
    res,         \* the rows a scan collected (lines 305, 381, 421, 628)
    price,       \* the argument of calculate_gann_levels
    levels,      \* the result of calculate_gann_levels
    button,      \* the button whose click started this run of the script
    lev_h,       \* the levels from the yearly high (line 478)
    lev_l,       \* the levels from the yearly low (line 485)
    h_data       \* the tiles the heatmap collected (line 585)

trapVars   == <<fii_L, fii_S, dii_L, dii_S, cli_L, cli_S, trap>>
tickerVars == <<symbol, ticker>>
scanVars   == <<data, t_l, sens, res>>
gannVars   == <<price, levels>>
runVars    == <<button, lev_h, lev_l, h_data>>

vars == <<pc, trapVars, tickerVars, scanVars, gannVars, runVars>>

-----------------------------------------------------------------------------
(* Float arithmetic *)

NaN == [n |-> 0, d |-> 0]

RECURSIVE GCD(_, _)
GCD(a, b) == IF b = 0 THEN a ELSE GCD(b, a % b)

Abs(x) == IF x < 0 THEN -x ELSE x

\* the rational n/d in lowest terms with a positive denominator (d # 0)
Rat(n, d) ==
    LET g == GCD(Abs(n), Abs(d))
        s == IF d < 0 THEN -1 ELSE 1
    IN  [n |-> s * (n \div g), d |-> s * (d \div g)]

Num(k) == [n |-> k, d |-> 1]

IsNaN(x) == x.d = 0

FAdd(x, y) == IF IsNaN(x) \/ IsNaN(y) THEN NaN
              ELSE Rat(x.n * y.d + y.n * x.d, x.d * y.d)
FSub(x, y) == IF IsNaN(x) \/ IsNaN(y) THEN NaN
              ELSE Rat(x.n * y.d - y.n * x.d, x.d * y.d)
\* (a/b) * (c/d), cancelling across before multiplying
FMul(x, y) ==
    IF IsNaN(x) \/ IsNaN(y) THEN NaN
    ELSE LET g1 == GCD(Abs(x.n), y.d)
             g2 == GCD(Abs(y.n), x.d)
         IN  [n |-> (x.n \div g1) * (y.n \div g2),
              d |-> (x.d \div g2) * (y.d \div g1)]
\* numpy division; 0/0 is NaN, the divisor is otherwise non-zero here
FDiv(x, y) ==
    IF IsNaN(x) \/ IsNaN(y) THEN NaN
    ELSE IF y.n = 0 THEN NaN
    ELSE FMul(x, IF y.n < 0 THEN [n |-> -y.d, d |-> -y.n]
                 ELSE [n |-> y.d, d |-> y.n])
FGt(x, y) == ~IsNaN(x) /\ ~IsNaN(y) /\ x.n * y.d > y.n * x.d
FLt(x, y) == ~IsNaN(x) /\ ~IsNaN(y) /\ x.n * y.d < y.n * x.d
FEq(x, y) == ~IsNaN(x) /\ ~IsNaN(y) /\ x.n * y.d = y.n * x.d
FLe(x, y) == FLt(x, y) \/ FEq(x, y)
FGe(x, y) == FGt(x, y) \/ FEq(x, y)

-----------------------------------------------------------------------------
(* Bounds of the model *)

MaxCount == 3          \* position counts range over 0..MaxCount
MaxLen == 3            \* typed symbols of up to MaxLen characters, plus the samples

MaxBars == 31          \* the longest fetched frame has MaxBars rows

MaxWeeks == 36         \* the longest weekly frame has MaxWeeks rows

MaxDays == 21          \* the longest daily frame has MaxDays rows

MaxCents == 1200       \* anchor prices of 0.01 .. MaxCents / 100, and 100.00

-----------------------------------------------------------------------------
(* analyze_smart_money, lines 182-226 *)

\* a call that returned the 6-tuple (signal, color, msg, fii, dii, cli)
Returned(signal, color, msg, f, d, c) ==
    [raised |-> "", signal |-> signal, color |-> color, msg |-> msg,
     fii_bull |-> f, dii_bull |-> d, cli_bull |-> c]

\* a call that ended in an exception
Raised(exc) ==
    [raised |-> exc, signal |-> "", color |-> "", msg |-> "",
     fii_bull |-> NaN, dii_bull |-> NaN, cli_bull |-> NaN]

\* (long / total) * 100 of Python numbers, total # 0
BullPct(long, total) == FMul(Rat(long, total), Num(100))

InstiTrend_inclusive(fii_bull, dii_bull) ==
    IF FGe(fii_bull, Num(60)) /\ FGe(dii_bull, Num(60)) THEN "BULLISH"
    ELSE IF FLe(fii_bull, Num(40)) /\ FLe(dii_bull, Num(40)) THEN "BEARISH"
    ELSE "NEUTRAL / FIGHT"

\* lines 193-197
InstiTrend(fii_bull, dii_bull) ==
    IF FGt(fii_bull, Num(60)) /\ FGt(dii_bull, Num(60)) THEN "BULLISH"
    ELSE IF FLt(fii_bull, Num(40)) /\ FLt(dii_bull, Num(40)) THEN "BEARISH"
    ELSE "NEUTRAL / FIGHT"

Neutral == [signal |-> "NEUTRAL", color |-> "gray",
            msg |-> "Market is finding direction."]

PickSignal_elif(insti_trend, cli_bull) ==
    IF insti_trend = "NEUTRAL / FIGHT" THEN
        [signal |-> "CHOPPY / RANGEBOUND", color |-> "orange",
         msg |-> "FIIs and DIIs are FIGHTING. Stuck in range. Option Sellers Day."]
    ELSE IF insti_trend = "BULLISH" THEN
        IF FLt(cli_bull, Num(40)) THEN
            [signal |-> "SMART RALLY (Buy Dips)", color |-> "green",
             msg |-> "Institutions United (Buy). Retail Scared."]
        ELSE IF FGt(cli_bull, Num(60)) THEN
            [signal |-> "UPTREND (Crowded)", color |-> "#90ee90",
             msg |-> "Everyone is buying. Upside limited."]
        ELSE Neutral
    ELSE IF insti_trend = "BEARISH" THEN
        IF FGt(cli_bull, Num(60)) THEN
            [signal |-> "BRUTAL CRASH AHEAD", color |-> "red",
             msg |-> "Institutions Selling. Retail Buying (Trap)."]
        ELSE IF FLt(cli_bull, Num(40)) THEN
            [signal |-> "DOWNTREND", color |-> "#ffcccb",
             msg |-> "Institutions Selling."]
        ELSE Neutral
    ELSE Neutral

\* lines 199-224 (the emoji that prefix the labels are left out)
PickSignal(insti_trend, cli_bull) ==
    IF insti_trend = "NEUTRAL / FIGHT" THEN
        [signal |-> "CHOPPY / RANGEBOUND", color |-> "orange",
         msg |-> "FIIs and DIIs are FIGHTING. Stuck in range. Option Sellers Day."]
    ELSE IF insti_trend = "BULLISH" THEN
        IF FLt(cli_bull, Num(40)) THEN
            [signal |-> "SMART RALLY (Buy Dips)", color |-> "green",
             msg |-> "Institutions United (Buy). Retail Scared."]
        ELSE
            [signal |-> "UPTREND (Crowded)", color |-> "#90ee90",
             msg |-> "Everyone is buying. Upside limited."]
    ELSE IF insti_trend = "BEARISH" THEN
        IF FGt(cli_bull, Num(60)) THEN
            [signal |-> "BRUTAL CRASH AHEAD", color |-> "red",
             msg |-> "Institutions Selling. Retail Buying (Trap)."]
        ELSE
            [signal |-> "DOWNTREND", color |-> "#ffcccb",
             msg |-> "Institutions Selling."]
    ELSE Neutral

\* lines 182-226.  Only total_fii is tested before the three divisions; a
\* Python division by a zero total raises ZeroDivisionError.
analyze_smart_money(fL, fS, dL, dS, cL, cS) ==
    LET total_fii == fL + fS
        total_dii == dL + dS
        total_cli == cL + cS
    IN  IF total_fii = 0
        THEN Returned("WAITING", "gray", "Input Data", Num(0), Num(0), Num(0))
        ELSE IF total_dii = 0 \/ total_cli = 0
        THEN Raised("ZeroDivisionError")
        ELSE LET fii_bull == BullPct(fL, total_fii)
                 dii_bull == BullPct(dL, total_dii)
                 cli_bull == BullPct(cL, total_cli)
                 s == PickSignal(InstiTrend(fii_bull, dii_bull), cli_bull)
             IN  Returned(s.signal, s.color, s.msg, fii_bull, dii_bull, cli_bull)

-----------------------------------------------------------------------------
(* fix_ticker, lines 30-53.  A Python str is a sequence of one-character     *)
(* strings.                                                                  *)

Lower == <<"a","b","c","d","e","f","g","h","i","j","k","l","m",
           "n","o","p","q","r","s","t","u","v","w","x","y","z">>
Upper == <<"A","B","C","D","E","F","G","H","I","J","K","L","M",
           "N","O","P","Q","R","S","T","U","V","W","X","Y","Z">>

Whitespace == {" ", "\t"}

\* str.upper() on one character: a lower-case letter becomes its capital
upper_char(c) ==
    IF \E i \in 1..Len(Lower) : Lower[i] = c
    THEN Upper[CHOOSE i \in 1..Len(Lower) : Lower[i] = c]
    ELSE c

upper(s) == [i \in 1..Len(s) |-> upper_char(s[i])]

\* str.strip(): drop the leading and the trailing whitespace
RECURSIVE lstrip(_)
lstrip(s) == IF s # <<>> /\ Head(s) \in Whitespace THEN lstrip(Tail(s)) ELSE s

RECURSIVE rstrip(_)
rstrip(s) == IF s # <<>> /\ s[Len(s)] \in Whitespace
             THEN rstrip(SubSeq(s, 1, Len(s) - 1)) ELSE s

strip(s) == rstrip(lstrip(s))

startswith(s, p) == Len(s) >= Len(p) /\ SubSeq(s, 1, Len(p)) = p
endswith(s, p) == Len(s) >= Len(p) /\ SubSeq(s, Len(s) - Len(p) + 1, Len(s)) = p

DotNS == <<".", "N", "S">>
DotBO == <<".", "B", "O">>
Caret == <<"^">>

\* lines 33-48
name_map ==
    (<<"N", "I", "F", "T", "Y">> :> <<"^", "N", "S", "E", "I">>) @@
    (<<"N", "I", "F", "T", "Y", "5", "0">> :> <<"^", "N", "S", "E", "I">>) @@
    (<<"B", "A", "N", "K", "N", "I", "F", "T", "Y">> :> <<"^", "N", "S", "E", "B", "A", "N", "K">>) @@
    (<<"V", "E", "D", "A", "N", "T", "A">> :> <<"V", "E", "D", "L">>) @@
    (<<"H", "D", "F", "C">> :> <<"H", "D", "F", "C", "B", "A", "N", "K">>) @@
    (<<"B", "A", "J", "F", "I", "N">> :> <<"B", "A", "J", "F", "I", "N", "A", "N", "C", "E">>) @@
    (<<"M", "&", "M">> :> <<"M", "&", "M">>) @@
    (<<"M", "A", "H", "I", "N", "D", "R", "A">> :> <<"M", "&", "M">>) @@
    (<<"M", "A", "R", "U", "T", "I">> :> <<"M", "A", "R", "U", "T", "I">>) @@
    (<<"T", "I", "T", "A", "N">> :> <<"T", "I", "T", "A", "N">>) @@
    (<<"A", "I", "R", "T", "E", "L">> :> <<"B", "H", "A", "R", "T", "I", "A", "R", "T", "L">>) @@
    (<<"J", "I", "O">> :> <<"J", "I", "O", "F", "I", "N">>) @@
    (<<"P", "O", "W", "E", "R", "G", "R", "I", "D">> :> <<"P", "O", "W", "E", "R", "G", "R", "I", "D">>) @@
    (<<"E", "T", "E", "R", "N", "A", "L">> :> <<"Z", "O", "M", "A", "T", "O">>)

Suffixed_always_ns(s) ==
    IF endswith(s, DotBO) \/ startswith(s, Caret) THEN s ELSE s \o DotNS

\* lines 51-53
Suffixed(s) ==
    IF endswith(s, DotNS) \/ endswith(s, DotBO) \/ startswith(s, Caret)
    THEN s
    ELSE s \o DotNS

\* lines 30-53
fix_ticker(sym) ==
    LET s  == upper(strip(sym))
        s2 == IF s \in DOMAIN name_map THEN name_map[s] ELSE s
    IN  Suffixed(s2)

-----------------------------------------------------------------------------
(* str.split(",") and str.replace(".NS", "") *)

RECURSIVE split(_, _)
\* s.split(c): the parts between the occurrences of the character c
split(s, c) ==
    IF \A i \in 1..Len(s) : s[i] # c THEN <<s>>
    ELSE LET i == CHOOSE i \in 1..Len(s) :
                      s[i] = c /\ \A j \in 1..(i - 1) : s[j] # c
         IN  <<SubSeq(s, 1, i - 1)>> \o split(SubSeq(s, i + 1, Len(s)), c)

RECURSIVE replace(_, _)
\* s.replace(old, ""): every occurrence of old removed, left to right
replace(s, old) ==
    IF Len(s) < Len(old) THEN s
    ELSE IF startswith(s, old) THEN replace(SubSeq(s, Len(old) + 1, Len(s)), old)
    ELSE <<Head(s)>> \o replace(Tail(s), old)

\* [fix_ticker(x) for x in text.split(",")], lines 378, 419
Tickers(text) ==
    LET parts == split(text, ",")
    IN  [i \in 1..Len(parts) |-> fix_ticker(parts[i])]

\* f"{x:.2f}" and f"{x:.1f}": x rounded to `per` parts of one, half to even;
\* NaN prints as nan
Rounded(x, per) ==
    IF IsNaN(x) THEN NaN
    ELSE LET q == (x.n * per) \div x.d
             r == (x.n * per) - q * x.d
         IN  IF 2 * r > x.d \/ (2 * r = x.d /\ q % 2 = 1)
             THEN Rat(q + 1, per) ELSE Rat(q, per)

Fmt2(x) == Rounded(x, 100)
Fmt1(x) == Rounded(x, 10)

-----------------------------------------------------------------------------
(* pandas Series: a sequence of floats, one per row of the fetched frame;   *)
(* a missing bar is NaN.  All columns of one frame have the same rows.      *)

Window == 20           \* rs.rolling(20)
Lag == 10              \* .shift(10)

RECURSIVE SumRange(_, _, _)
\* s[lo] + ... + s[hi]
SumRange(s, lo, hi) ==
    IF lo > hi THEN Num(0) ELSE FAdd(SumRange(s, lo, hi - 1), s[hi])

RollingMean_offbyone(s, w, k) ==
    IF k <= w \/ k > Len(s) THEN NaN
    ELSE IF \E j \in (k - w)..k : IsNaN(s[j]) THEN NaN
    ELSE FDiv(SumRange(s, k - w, k), Num(w))

\* s.rolling(w).mean() at row k: NaN until w rows are there and whenever a row
\* of the window is NaN (min_periods defaults to the window)
RollingMean(s, w, k) ==
    IF k < w \/ k > Len(s) THEN NaN
    ELSE IF \E j \in (k - w + 1)..k : IsNaN(s[j]) THEN NaN
    ELSE FDiv(SumRange(s, k - w + 1, k), Num(w))

\* s.shift(p) at row k: the value p rows earlier, NaN for the first p rows
Shifted(s, p, k) == IF k - p >= 1 THEN s[k - p] ELSE NaN

-----------------------------------------------------------------------------
(* Sector Compass, lines 292-325 *)

Code_NSEI    == <<"^","N","S","E","I">>
Code_NSEBANK == <<"^","N","S","E","B","A","N","K">>
Code_CNXIT   == <<"^","C","N","X","I","T">>

\* lines 294-303: the first two of the eight entries of secs; the loop body
\* treats every entry alike
secs == << [n |-> "Bank", t |-> Code_NSEBANK],
           [n |-> "IT",   t |-> Code_CNXIT] >>

Quadrant_ge(ratio, mom) ==
    IF FGe(ratio, Num(100)) /\ FGe(mom, Num(100)) THEN "Leading"
    ELSE IF FGe(ratio, Num(100)) THEN "Weakening"
    ELSE IF FLt(ratio, Num(100)) /\ FLt(mom, Num(100)) THEN "Lagging"
    ELSE "Improving"

\* lines 314-322
Quadrant(ratio, mom) ==
    IF FGt(ratio, Num(100)) /\ FGt(mom, Num(100)) THEN "Leading"
    ELSE IF FGt(ratio, Num(100)) THEN "Weakening"
    ELSE IF FLt(ratio, Num(100)) /\ FLt(mom, Num(100)) THEN "Lagging"
    ELSE "Improving"

\* line 309: rs = (s / i) * 100, row by row
RelStrength(s, i) == [k \in 1..Len(s) |-> FMul(FDiv(s[k], i[k]), Num(100))]

\* rs / rs.rolling(20).mean(), row by row
Normalized(rs) == [k \in 1..Len(rs) |-> FDiv(rs[k], RollingMean(rs, Window, k))]

\* line 310, read at row k (the code reads the last row, .iloc[-1])
RatioAt(rs, k) == FMul(Normalized(rs)[k], Num(100))

\* lines 311-313, read at row k
MomentumAt(rs, k) ==
    FMul(FDiv(RatioAt(rs, k), FMul(Shifted(Normalized(rs), Lag, k), Num(100))),
         Num(100))

Ratio(rs) == RatioAt(rs, Len(rs))
Momentum(rs) == MomentumAt(rs, Len(rs))

\* lines 307-325, one pass of the loop body: the rows it appends to res.
\* data[t] of an absent column raises KeyError and .iloc[-1] of an empty
\* series IndexError; the bare except drops both.  NaN raises nothing.
RowAdded(d, sec) ==
    IF sec.t \notin DOMAIN d \/ Code_NSEI \notin DOMAIN d THEN <<>>
    ELSE LET rs == RelStrength(d[sec.t].Close, d[Code_NSEI].Close)
         IN  IF Len(rs) = 0 THEN <<>>
             ELSE << [n |-> sec.n, ratio |-> Ratio(rs), mom |-> Momentum(rs),
                      q |-> Quadrant(Ratio(rs), Momentum(rs))] >>

RECURSIVE CompassRows(_, _)
\* lines 305-325: res after the loop over the first k entries of secs
CompassRows(d, k) ==
    IF k = 0 THEN <<>> ELSE CompassRows(d, k - 1) \o RowAdded(d, secs[k])

-----------------------------------------------------------------------------
(* Stage 2 scanner, lines 377-401 *)

MinBars == 30          \* if len(df) < 30: continue
StageWindow == 30      \* rolling(window=30)

\* lines 390-396 (the emoji that prefix the labels are left out)
Status(dist) ==
    IF FGt(dist, Num(20)) THEN "Overheated"
    ELSE IF FGt(dist, Num(5)) THEN "Strong Trend"
    ELSE IF FGt(dist, Num(0)) THEN "Early Entry"
    ELSE "Stage 4 (Avoid)"

\* line 388
MovingAverage(close) == RollingMean(close, StageWindow, Len(close))

\* line 389
Dist(close) ==
    LET curr == close[Len(close)]
        ma == MovingAverage(close)
    IN  FMul(FDiv(FSub(curr, ma), ma), Num(100))

\* lines 383-401, one pass of the loop body: the rows it appends to res.
\* data[t] of an absent symbol raises KeyError, dropped by the bare except.
StageRow(d, t) ==
    IF t \notin DOMAIN d THEN <<>>
    ELSE LET close == d[t].Close
         IN  IF Len(close) < MinBars THEN <<>>
             ELSE << [stock |-> replace(t, DotNS),
                      price |-> Fmt2(close[Len(close)]),
                      dist |-> Fmt2(Dist(close)),
                      status |-> Status(Dist(close))] >>

RECURSIVE StageRows(_, _, _)
\* lines 381-401: res after the loop over the first k symbols of tl
StageRows(d, tl, k) ==
    IF k = 0 THEN <<>> ELSE StageRows(d, tl, k - 1) \o StageRow(d, tl[k])

-----------------------------------------------------------------------------
(* Hype Meter, lines 418-450 *)

HypeMinBars == 5       \* if len(df) < 5: continue

\* Series.mean(): the mean of the rows that are not NaN, NaN when there is none
Mean(s) ==
    LET rows == {k \in 1..Len(s) : ~IsNaN(s[k])}
        zeroed == [k \in 1..Len(s) |-> IF IsNaN(s[k]) THEN Num(0) ELSE s[k]]
    IN  IF rows = {} THEN NaN
        ELSE FDiv(SumRange(zeroed, 1, Len(s)), Num(Cardinality(rows)))

\* lines 427-437: the row v, c and dt are read from, the last one unless its
\* volume is not above 0
ReadRow(df) ==
    IF FGt(df.Volume[Len(df.Volume)], Num(0))
    THEN Len(df.Volume) ELSE Len(df.Volume) - 1

SpikeFactor_others(df) ==
    LET n == Len(df.Volume)
    IN  FDiv(df.Volume[ReadRow(df)], Mean(SubSeq(df.Volume, 1, n - 1)))

\* line 438: fac = v / df["Volume"].mean()
SpikeFactor(df) == FDiv(df.Volume[ReadRow(df)], Mean(df.Volume))

\* lines 439-446 (the emoji that prefix the tags are left out)
Tag(fac) ==
    IF FGt(fac, Num(5)) THEN "EXPLOSIVE"
    ELSE IF FGt(fac, Num(2)) THEN "HOT"
    ELSE IF FGt(fac, Num(1)) THEN "ACTIVE"
    ELSE "COLD"

\* lines 423-450, one pass of the loop body: the rows it appends to res.
\* data[t] of an absent symbol raises KeyError, dropped by the bare except.
HypeRow(d, t, threshold) ==
    IF t \notin DOMAIN d THEN <<>>
    ELSE LET df == d[t]
             fac == SpikeFactor(df)
         IN  IF Len(df.Volume) < HypeMinBars THEN <<>>
             ELSE IF FGt(fac, threshold)
             THEN << [stock |-> t, price |-> df.Close[ReadRow(df)],
                      fac |-> Fmt1(fac), tag |-> Tag(fac),
                      date |-> df.Date[ReadRow(df)]] >>
             ELSE <<>>

RECURSIVE HypeRows(_, _, _, _)
\* lines 421-450: res after the loop over the first k symbols of hl
HypeRows(d, hl, threshold, k) ==
    IF k = 0 THEN <<>>
    ELSE HypeRows(d, hl, threshold, k - 1) \o HypeRow(d, hl[k], threshold)

-----------------------------------------------------------------------------
(* calculate_gann_levels, lines 77-89.  A price is a whole number of        *)
(* hundredths; np.sqrt is carried to three decimals (thousandths, rounded   *)
(* down), so a level, the square of a number of thousandths, is a whole     *)
(* number of millionths.                                                    *)

Thousandths == 10 * 10 * 10          \* thousandths in one
Millionths  == Thousandths * Thousandths

RECURSIVE Bisect(_, _, _)
\* the largest r in lo..hi with r * r <= x, given lo * lo <= x
Bisect(x, lo, hi) ==
    IF lo >= hi THEN lo
    ELSE LET mid == (lo + hi + 1) \div 2
         IN  IF mid * mid <= x THEN Bisect(x, mid, hi) ELSE Bisect(x, lo, mid - 1)

\* np.sqrt(price), in thousandths; price in hundredths
Sqrt(cents) == Bisect(cents * (Millionths \div 100), 0, 40 * Thousandths)

\* the anchor price itself, in millionths
Anchor(cents) == cents * (Millionths \div 100)

\* (sq + off) ** 2, in millionths; sq and off in thousandths
Squared(sq, off) == (sq + off) * (sq + off)

calculate_gann_levels_swapped(cents) ==
    LET sq == Sqrt(cents)
    IN  << Squared(sq, -2 * Thousandths),
           Squared(sq, -1 * Thousandths),
           Squared(sq, -(Thousandths \div 4)),
           Squared(sq, -(Thousandths \div 2)),
           Anchor(cents),
           Squared(sq, Thousandths \div 4),
           Squared(sq, Thousandths \div 2),
           Squared(sq, 1 * Thousandths),
           Squared(sq, 2 * Thousandths) >>

\* lines 77-89
calculate_gann_levels(cents) ==
    LET sq == Sqrt(cents)
    IN  << Squared(sq, -2 * Thousandths),
           Squared(sq, -1 * Thousandths),
           Squared(sq, -(Thousandths \div 2)),
           Squared(sq, -(Thousandths \div 4)),
           Anchor(cents),
           Squared(sq, Thousandths \div 4),
           Squared(sq, Thousandths \div 2),
           Squared(sq, 1 * Thousandths),
           Squared(sq, 2 * Thousandths) >>

-----------------------------------------------------------------------------
(* Heatmap, lines 501-604 *)

\* lines 503-582: the first two symbols of each of the three lists; the loop
\* body treats every symbol alike
lists ==
    [ x \in {"Nifty 50", "Bank Nifty", "Nifty IT"} |->
        CASE x = "Nifty 50"   -> << <<"R","E","L","I","A","N","C","E">>,
                                    <<"T","C","S">> >>
          [] x = "Bank Nifty" -> << <<"H","D","F","C","B","A","N","K">>,
                                    <<"I","C","I","C","I","B","A","N","K">> >>
          [] x = "Nifty IT"   -> << <<"T","C","S">>,
                                    <<"I","N","F","Y">> >> ]

\* line 584: ticks = [fix_ticker(x) for x in lists[sel]]
Ticks(sel) == [i \in 1..Len(lists[sel]) |-> fix_ticker(lists[sel][i])]

\* lines 594-604: the tile of symbol t with last close l_c and previous p_c
Tile(t, l_c, p_c) ==
    LET pct == FMul(FDiv(FSub(l_c, p_c), p_c), Num(100))
    IN  [Ticker |-> replace(t, DotNS), Change |-> pct, Price |-> l_c,
         Label |-> <<replace(t, DotNS), Fmt2(pct)>>]

\* lines 587-604, one pass of the loop body: the tiles it appends to h_data.
\* data[t] of an absent symbol raises KeyError, .iloc[-2] of a one-row column
\* and .iloc[-3] of a two-row column IndexError; the bare except drops them.
Tiles(d, t) ==
    IF t \notin DOMAIN d THEN <<>>
    ELSE LET close == d[t].Close
             n == Len(close)
         IN  IF n < 2 THEN <<>>
             ELSE IF FEq(close[n], Num(0)) \/ IsNaN(close[n])
             THEN IF n < 3 THEN <<>>
                  ELSE <<Tile(t, close[n - 1], close[n - 2])>>
             ELSE <<Tile(t, close[n], close[n - 1])>>

RECURSIVE HeatRows(_, _, _)
\* lines 585-604: h_data after the loop over the first k symbols of ticks
HeatRows(d, ticks, k) ==
    IF k = 0 THEN <<>> ELSE HeatRows(d, ticks, k - 1) \o Tiles(d, ticks[k])

-----------------------------------------------------------------------------
(* fetch_commodities, lines 93-178 *)

\* lines 95-105: the first two of the nine entries of tickers; the loop body
\* treats every entry alike up to the impact rule its name selects
tickers == << [name |-> "Brent Crude", ticker |-> "BZ=F"],
              [name |-> "Gold",        ticker |-> "GC=F"] >>

\* lines 125-168: the impact rule of the asset (the texts are shortened)
Impact(name, change) ==
    CASE name = "Brent Crude" ->
            IF FGt(change, Rat(3, 2))
            THEN [impact |-> "Bearish: PAINTS, TYRES", color |-> "red"]
            ELSE IF FLt(change, Rat(-3, 2))
            THEN [impact |-> "Bullish: PAINTS, TYRES, CEMENT", color |-> "green"]
            ELSE [impact |-> "Neutral", color |-> "gray"]
      [] name = "Gold" ->
            IF FGt(change, Num(1))
            THEN [impact |-> "Market Fear Increasing", color |-> "orange"]
            ELSE [impact |-> "Neutral", color |-> "gray"]
      [] name = "Silver (Solar/EV)" ->
            IF FGt(change, Num(2))
            THEN [impact |-> "Cost Squeeze: SOLAR", color |-> "red"]
            ELSE IF FLt(change, Num(-2))
            THEN [impact |-> "Margin Boost: SOLAR", color |-> "green"]
            ELSE [impact |-> "Neutral", color |-> "gray"]
      [] name \in {"Aluminum", "Steel (HRC)"} ->
            IF FGt(change, Rat(3, 2))
            THEN [impact |-> "Bullish: metals", color |-> "blue"]
            ELSE [impact |-> "Neutral", color |-> "gray"]
      [] name \in {"Platinum", "Palladium"} ->
            IF FGt(change, Num(2))
            THEN [impact |-> "Cost Spike: AUTO", color |-> "red"]
            ELSE [impact |-> "Neutral", color |-> "gray"]
      [] name = "USD/INR" ->
            IF FGt(change, Rat(3, 10))
            THEN [impact |-> "Bullish: IT, PHARMA", color |-> "green"]
            ELSE IF FLt(change, Rat(-3, 10))
            THEN [impact |-> "Bearish: IT, PHARMA", color |-> "red"]
            ELSE [impact |-> "Neutral", color |-> "gray"]
      [] OTHER -> [impact |-> "Neutral", color |-> "gray"]

\* lines 116-176, one pass of the loop body: the rows it appends to results.
\* data[ticker] of an absent column raises KeyError, dropped by the bare
\* except; a frame of fewer than two rows is skipped.
MacroRow(d, e) ==
    IF e.ticker \notin DOMAIN d THEN <<>>
    ELSE LET close == d[e.ticker].Close
             n == Len(close)
         IN  IF n < 2 THEN <<>>
             ELSE LET curr == close[n]
                      prev == close[n - 1]
                      change == FMul(FDiv(FSub(curr, prev), prev), Num(100))
                  IN  << [name |-> e.name, curr |-> curr, change |-> change,
                          impact |-> Impact(e.name, change).impact,
                          color |-> Impact(e.name, change).color] >>

RECURSIVE MacroRows(_, _)
\* lines 115-177: results after the loop over the first k entries of tickers
MacroRows(d, k) ==
    IF k = 0 THEN <<>> ELSE MacroRows(d, k - 1) \o MacroRow(d, tickers[k])

\* lines 93-178 with the frame yf.download returned
fetch_commodities(d) == MacroRows(d, Len(tickers))

\* what a user can type into a symbol box
Typed == {" ", ".", "^", "n", "s", "B", "o"}

RECURSIVE StringsUpTo(_)
StringsUpTo(n) ==
    IF n = 0 THEN {<<>>}
    ELSE LET shorter == StringsUpTo(n - 1)
         IN  shorter \cup {Append(w, c) : w \in {x \in shorter : Len(x) = n - 1},
                                          c \in Typed}

Samples ==
    {<<"n", "i", "f", "t", "y", "b", "a", "n", "k">>,
     <<" ", "r", "e", "l", "i", "a", "n", "c", "e", " ">>,
     <<"b", "a", "n", "k", "n", "i", "f", "t", "y">>,
     <<"B", "a", "n", "k", "N", "i", "f", "t", "y", " ">>,
     <<" ", "n", "i", "f", "t", "y">>,
     <<"n", "i", "f", "t", "y", "5", "0">>,
     <<"h", "d", "f", "c">>,
     <<"m", "&", "m">>,
     <<"M", "a", "h", "i", "n", "d", "r", "a">>,
     <<"r", "e", "l", "i", "a", "n", "c", "e", ".", "n", "s">>,
     <<"s", "b", "i", "n", ".", "b", "o">>,
     <<"^", "n", "s", "e", "i">>,
     <<"e", "t", "e", "r", "n", "a", "l">>,
     <<"v", "e", "d", "a", "n", "t", "a">>,
     <<"j", "i", "o", " ">>}

Symbols == Samples \cup StringsUpTo(MaxLen)

-----------------------------------------------------------------------------
(* Snapshots the data provider can return for the Sector Compass *)

Bars == {0, 19, 20, 29, 30, MaxBars}      \* rows of the fetched frame
Leads == {0, 2}                            \* leading rows a sector has no bar for

BenchShapes == {"flat", "alt", "step"}
SectorShapes == {"same", "flat", "up5", "down5", "up15", "down15",
                 "tie", "pulse_hi", "pulse_lo"}

\* the benchmark close at row k of n: positive
BenchClose(shape, n) ==
    [k \in 1..n |->
        Num(CASE shape = "flat" -> 2
              [] shape = "alt"  -> IF k % 2 = 0 THEN 1 ELSE 2
              [] shape = "step" -> IF n - k < 10 THEN 4 ELSE 2)]

\* a sector close at row k of n (j rows before the last): positive, NaN for
\* the first `lead` rows
SectorClose(shape, lead, n, bench) ==
    [k \in 1..n |->
        IF k <= lead THEN NaN
        ELSE LET j == n - k
             IN  CASE shape = "same"     -> bench[k]
                   [] shape = "flat"     -> Num(2)
                   [] shape = "up5"      -> Num(IF j < 5 THEN 3 ELSE 2)
                   [] shape = "down5"    -> Num(IF j < 5 THEN 2 ELSE 3)
                   [] shape = "up15"     -> Num(IF j < 15 THEN 3 ELSE 2)
                   [] shape = "down15"   -> Num(IF j < 15 THEN 2 ELSE 3)
                   [] shape = "tie"      -> Num(IF j = 0 THEN 20
                                                ELSE IF j = 10 THEN 38 ELSE 19)
                   [] shape = "pulse_hi" -> Num(IF j % 10 = 0 THEN 3 ELSE 2)
                   [] shape = "pulse_lo" -> Num(IF j % 10 = 0 THEN 1 ELSE 2)]

\* what the provider sends for one sector: nothing, or a close column
SectorChoices == {<<"missing", 0>>} \cup (SectorShapes \X Leads)

Column(c, n, bench) ==
    [Close |-> SectorClose(c[1], c[2], n, bench)]

\* frames of n rows (n in bars) holding the benchmark (a shape of benches)
\* and, for each sector, a column or none (choices); and frames with no
\* benchmark column at all
CompassFrames(bars, benches, choices) ==
    { LET bench == BenchClose(b, n)
          present == {i \in 1..Len(secs) : c[i][1] # "missing"}
      IN  [t \in {Code_NSEI} \cup {secs[i].t : i \in present} |->
              IF t = Code_NSEI THEN [Close |-> bench]
              ELSE Column(c[CHOOSE i \in present : secs[i].t = t], n, bench)]
      : n \in bars, b \in benches, c \in [1..Len(secs) -> choices] }
    \cup
    { [t \in {secs[i].t : i \in 1..Len(secs)} |->
          Column(<<"flat", 0>>, n, BenchClose("flat", n))] : n \in bars }

\* the frames get_stock_data can return
CompassData == CompassFrames(Bars, BenchShapes, SectorChoices)

-----------------------------------------------------------------------------
(* Watch-lists and snapshots of the Stage 2 scanner *)

\* what the text area can hold: the first two symbols of its default text
\* (lines 373-376), and aliases
StageTexts ==
    { <<"R","E","L","I","A","N","C","E",","," ","S","B","I","N">>,
      <<"h","d","f","c",",","t","c","s",".","n","s">> }

Weeks == {0, 29, 30, 34, 35, MaxWeeks}     \* rows of the fetched frame

StageShapes == {"rising", "falling", "flat", "bounce", "dip", "hot", "strong",
                "early"}

\* a weekly close at row k of n: positive, NaN for the first `lead` rows
StageClose(shape, lead, n) ==
    [k \in 1..n |->
        IF k <= lead THEN NaN
        ELSE CASE shape = "rising"  -> Num(k)
               [] shape = "falling" -> Num(n + 1 - k)
               [] shape = "flat"    -> Num(5)
               [] shape = "bounce"  -> Num(IF k = n THEN n + 10 ELSE n + 10 - k)
               [] shape = "dip"     -> Num(IF k = n THEN 1 ELSE k)
               [] shape = "hot"     -> Num(IF k = n THEN 13 ELSE 10)
               [] shape = "strong"  -> Num(IF k = n THEN 11 ELSE 10)
               [] shape = "early"   -> Num(IF k = n THEN 103 ELSE 100)]

StageChoices == {<<"missing", 0>>} \cup (StageShapes \X {0, 1})

\* frames of n rows (n in weeks) holding, for each symbol of tl, a close
\* column or none (choices)
StageFrames(tl, weeks, choices) ==
    { LET present == {i \in 1..Len(tl) : c[i][1] # "missing"}
      IN  [t \in {tl[i] : i \in present} |->
              LET i == CHOOSE i \in present : tl[i] = t
              IN  [Close |-> StageClose(c[i][1], c[i][2], n)]]
      : n \in weeks, c \in [1..Len(tl) -> choices] }

\* the frames get_stock_data can return for the symbols tl
StageData(tl) == StageFrames(tl, Weeks, StageChoices)

-----------------------------------------------------------------------------
(* Watch-lists, slider positions and snapshots of the Hype Meter *)

\* the first two symbols of the default watch-list (lines 415-417)
HypeTexts ==
    { <<"A","D","A","N","I","E","N","T",","," ","Z","O","M","A","T","O">> }

\* st.slider("Sensitivity", 0.5, 5.0, 1.0, 0.5), line 414: 0.5, 1.0, ..., 5.0
SliderStops == {Rat(h, 2) : h \in 1..10}

Days == {4, 5, 20, MaxDays}                 \* rows of the fetched frame

VolumeShapes == {"flat1", "flat2", "mixed"}
LastVolumes == {"nan", "0", "1", "3", "6", "12"}

\* the daily volumes: rows 1..n-1 follow the shape, the last row is `last`
Volumes(shape, last, n) ==
    [k \in 1..n |->
        IF k = n
        THEN CASE last = "nan" -> NaN
               [] last = "0"   -> Num(0)
               [] last = "1"   -> Num(1)
               [] last = "3"   -> Num(3)
               [] last = "6"   -> Num(6)
               [] last = "12"  -> Num(12)
        ELSE CASE shape = "flat1" -> Num(1)
               [] shape = "flat2" -> Num(2)
               [] shape = "mixed" -> Num(IF k < 10 THEN 1
                                         ELSE IF k = 10 THEN 2 ELSE 3)]

HypeChoices == {<<"missing", "0">>} \cup (VolumeShapes \X LastVolumes)

\* frames of n rows (n in days) holding, for each symbol of hl, nothing or
\* volume, close and date columns (row k closes at 100 + k on day k)
HypeFrames(hl, days, choices) ==
    { LET present == {i \in 1..Len(hl) : c[i][1] # "missing"}
      IN  [t \in {hl[i] : i \in present} |->
              LET i == CHOOSE i \in present : hl[i] = t
              IN  [Volume |-> Volumes(c[i][1], c[i][2], n),
                   Close |-> [k \in 1..n |-> Num(100 + k)],
                   Date |-> [k \in 1..n |-> k]]]
      : n \in days, c \in [1..Len(hl) -> choices] }

\* the frames get_stock_data can return for the symbols hl
HypeData(hl) == HypeFrames(hl, Days, HypeChoices)

-----------------------------------------------------------------------------
(* Inputs of one run of the whole script: the sidebar, the text boxes and   *)
(* the snapshot the clicked handler fetches.                                *)

MaxLots == 2           \* lots typed above the minimums, all six counts together

number_input_as_value(value) ==
    {0} \cup {value + k * 7 * value : k \in 0..MaxLots}

\* st.number_input(label, min_value): the second positional parameter of
\* number_input is min_value, and the value defaults to the minimum; the
\* widget returns a whole number, never one below min_value.  The counts
\* typed here are the minimum and the minimum plus lots of seven times
\* itself, far enough apart for every signal to occur.
number_input(min_value) ==
    {min_value + k * 7 * min_value : k \in 0..MaxLots}

\* the lots a count lies above its minimum
Lots(count, min_value) == (count - min_value) \div (7 * min_value)

\* lines 232-237
Sidebar ==
    /\ fii_L \in number_input(35000)
    /\ fii_S \in number_input(125000)
    /\ dii_L \in number_input(55000)
    /\ dii_S \in number_input(25000)
    /\ cli_L \in number_input(300000)
    /\ cli_S \in number_input(150000)
    /\ Lots(fii_L, 35000) + Lots(fii_S, 125000) + Lots(dii_L, 55000)
         + Lots(dii_S, 25000) + Lots(cli_L, 300000) + Lots(cli_S, 150000)
         <= MaxLots

\* line 414, some of the stops of the slider: the lowest, the default, the
\* highest
RunStops == {Rat(1, 2), Num(1), Num(5)}

\* frames of the Sector Compass: a full frame with, for each sector, no
\* column or a column; or no benchmark
RunCompassData ==
    CompassFrames({MaxBars}, {"flat"},
                  {<<"missing", 0>>, <<"up5", 0>>, <<"down5", 0>>})

\* line 373: the default text of the Stage 2 box (its first two symbols)
RunStageTexts == { <<"R","E","L","I","A","N","C","E",","," ","S","B","I","N">> }

\* frames of the Stage 2 scanner: too short or long enough, and for each
\* symbol no column or a column
RunStageData(tl) ==
    StageFrames(tl, {MinBars - 1, MaxWeeks},
                {<<"missing", 0>>, <<"rising", 0>>, <<"falling", 0>>})

\* frames of the Hype Meter: too short or long enough, and for each symbol
\* no columns or columns
RunHypeData(hl) ==
    HypeFrames(hl, {HypeMinBars - 1, MaxDays},
               {<<"missing", "0">>, <<"flat1", "6">>, <<"flat1", "1">>})

\* line 465: what the Gann box holds, the default text or another symbol
GannTexts == { <<"N","I","F","T","Y">>, <<"t","c","s">> }

\* one daily bar of yf.Ticker(gt).history, high and low in hundredths
GannBars == { [High |-> 400, Low |-> 100], [High |-> 100 * 100, Low |-> 400] }

\* line 467: the history frame, empty or of one or two rows
GannHistory == {<<>>} \cup {<<a>> : a \in GannBars}
                      \cup {<<a, b>> : a \in GannBars, b \in GannBars}

RECURSIVE ColumnMax(_, _)
\* d["High"].max() over the first k rows
ColumnMax(d, k) ==
    IF k = 1 THEN d[1].High
    ELSE IF d[k].High > ColumnMax(d, k - 1) THEN d[k].High
    ELSE ColumnMax(d, k - 1)

RECURSIVE ColumnMin(_, _)
\* d["Low"].min() over the first k rows
ColumnMin(d, k) ==
    IF k = 1 THEN d[1].Low
    ELSE IF d[k].Low < ColumnMin(d, k - 1) THEN d[k].Low
    ELSE ColumnMin(d, k - 1)

HeatDays == {1, 2, 3}                      \* rows of the fetched frame
HeatShapes == {"up", "lastnan"}

\* the daily close at row k of n: positive, NaN in the last row of "lastnan"
HeatClose(shape, n) ==
    [k \in 1..n |-> IF shape = "lastnan" /\ k = n THEN NaN ELSE Num(100 + k)]

HeatChoices == {"missing"} \cup HeatShapes

\* the frames get_stock_data can return for the symbols ticks: for each symbol
\* a close column or none
HeatData(ticks) ==
    { LET present == {i \in 1..Len(ticks) : c[i] # "missing"}
      IN  [t \in {ticks[i] : i \in present} |->
              LET i == CHOOSE i \in present : ticks[i] = t
              IN  [Close |-> HeatClose(c[i], n)]]
      : n \in HeatDays, c \in [1..Len(ticks) -> HeatChoices] }

MacroDays == {1, 2}                        \* rows of the fetched frame
MacroShapes == {"up2", "down2"}

\* the daily close at row k of n: 100, then 2 % up or down in the last row
MacroClose(shape, n) ==
    [k \in 1..n |-> IF k < n THEN Num(100)
                    ELSE IF shape = "up2" THEN Num(102) ELSE Num(98)]

MacroChoices == {"missing"} \cup MacroShapes

\* the frames yf.download can return inside fetch_commodities (line 107): for
\* each asset a close column or none
MacroData ==
    { LET present == {i \in 1..Len(tickers) : c[i] # "missing"}
      IN  [t \in {tickers[i].ticker : i \in present} |->
              LET i == CHOOSE i \in present : tickers[i].ticker = t
              IN  [Close |-> MacroClose(c[i], n)]]
      : n \in MacroDays, c \in [1..Len(tickers) -> MacroChoices] }

-----------------------------------------------------------------------------
(* Handlers.  Each specification runs one handler of the script; the        *)
(* variables of the others stay at their idle values.                       *)

NoTrap == Returned("", "", "", NaN, NaN, NaN)
NoTicker == <<"?">>
NoData == <<>>

TrapIdle ==
    /\ fii_L = 0 /\ fii_S = 0 /\ dii_L = 0 /\ dii_S = 0 /\ cli_L = 0 /\ cli_S = 0
    /\ trap = NoTrap
TickerIdle == symbol = <<>> /\ ticker = NoTicker
ScanIdle == data = NoData /\ t_l = <<>> /\ sens = Num(1) /\ res = <<>>
GannIdle == price = 0 /\ levels = <<>>
RunIdle == button = "" /\ lev_h = <<>> /\ lev_l = <<>> /\ h_data = <<>>

\* the six arguments of a call: any non-negative counts (the function itself
\* does not look at where they come from)
Counts ==
    /\ fii_L \in 0..MaxCount /\ fii_S \in 0..MaxCount
    /\ dii_L \in 0..MaxCount /\ dii_S \in 0..MaxCount
    /\ cli_L \in 0..MaxCount /\ cli_S \in 0..MaxCount

\* one call of analyze_smart_money, as lines 260-262 make it: outside any try,
\* so an exception of the callee leaves the caller
TrapDetector ==
    /\ pc = "call"
    /\ trap' = analyze_smart_money(fii_L, fii_S, dii_L, dii_S, cli_L, cli_S)
    /\ pc' = IF trap'.raised = "" THEN "returned" ELSE "raised"
    /\ UNCHANGED <<fii_L, fii_S, dii_L, dii_S, cli_L, cli_S>>
    /\ UNCHANGED <<tickerVars, scanVars, gannVars, runVars>>

InitTrap ==
    /\ pc = "call"
    /\ Counts /\ trap = NoTrap
    /\ TickerIdle /\ ScanIdle /\ GannIdle /\ RunIdle

NextTrap == TrapDetector

SpecTrap == InitTrap /\ [][NextTrap]_vars

\* one call fix_ticker(symbol)
FixTicker ==
    /\ pc = "call"
    /\ ticker' = fix_ticker(symbol)
    /\ pc' = "returned"
    /\ UNCHANGED <<symbol, trapVars, scanVars, gannVars, runVars>>

InitTicker ==
    /\ pc = "call"
    /\ symbol \in Symbols /\ ticker = NoTicker
    /\ TrapIdle /\ ScanIdle /\ GannIdle /\ RunIdle

NextTicker == FixTicker

SpecTicker == InitTicker /\ [][NextTicker]_vars

\* a second call, fix_ticker(fix_ticker(symbol)): its argument is the result
\* of the first
FixTickerAgain ==
    /\ pc = "returned"
    /\ symbol' = ticker
    /\ ticker' = fix_ticker(ticker)
    /\ pc' = "again"
    /\ UNCHANGED <<trapVars, scanVars, gannVars, runVars>>

NextTwice == FixTicker \/ FixTickerAgain

SpecTwice == InitTicker /\ [][NextTwice]_vars

\* tab 2, lines 292-325: the "Scout Sectors" click fetches one snapshot and
\* runs the loop over secs
ScoutSectors ==
    /\ pc = "button"
    /\ \E d \in CompassData :
          /\ data' = d
          /\ res' = CompassRows(d, Len(secs))
    /\ pc' = "done"
    /\ UNCHANGED <<t_l, sens, trapVars, tickerVars, gannVars, runVars>>

InitScan ==
    /\ pc = "button"
    /\ ScanIdle /\ TrapIdle /\ TickerIdle /\ GannIdle /\ RunIdle

NextCompass == ScoutSectors

SpecCompass == InitScan /\ [][NextCompass]_vars

\* tab 3, lines 377-401: the "Run Stage 2 Analysis" click normalizes the
\* watch-list, fetches one snapshot and runs the loop
RunStage2 ==
    /\ pc = "button"
    /\ \E text \in StageTexts :
          /\ t_l' = Tickers(text)
          /\ \E d \in StageData(t_l') :
                /\ data' = d
                /\ res' = StageRows(d, t_l', Len(t_l'))
    /\ pc' = "done"
    /\ UNCHANGED <<sens, trapVars, tickerVars, gannVars, runVars>>

NextStage == RunStage2

SpecStage == InitScan /\ [][NextStage]_vars

\* tab 4, lines 414-450: the slider is read, then the "Scan Hype" click
\* normalizes the watch-list, fetches one snapshot and runs the loop
ScanHype ==
    /\ pc = "button"
    /\ \E stop \in SliderStops, text \in HypeTexts :
          /\ sens' = stop
          /\ t_l' = Tickers(text)
          /\ \E d \in HypeData(t_l') :
                /\ data' = d
                /\ res' = HypeRows(d, t_l', stop, Len(t_l'))
    /\ pc' = "done"
    /\ UNCHANGED <<trapVars, tickerVars, gannVars, runVars>>

NextHype == ScanHype

SpecHype == InitScan /\ [][NextHype]_vars

\* the anchor prices, in hundredths: positive
AnchorPrices == (1..MaxCents) \cup {100 * 100}

\* one call calculate_gann_levels(price), as lines 478 and 485 make it
GannLevels ==
    /\ pc = "call"
    /\ levels' = calculate_gann_levels(price)
    /\ pc' = "returned"
    /\ UNCHANGED <<price, trapVars, tickerVars, scanVars, runVars>>

InitGann ==
    /\ pc = "call"
    /\ price \in AnchorPrices /\ levels = <<>>
    /\ TrapIdle /\ TickerIdle /\ ScanIdle /\ RunIdle

NextGann == GannLevels

SpecGann == InitGann /\ [][NextGann]_vars

-----------------------------------------------------------------------------
(* One run of the whole script, lines 230-635.  Streamlit runs the script   *)
(* from top to bottom; st.button is True for the one button whose click     *)
(* started the run, in that run only.  pc names the tab about to be         *)
(* evaluated; button is "" until the clicked button has been met.  An       *)
(* exception that leaves a tab's code ends the run there (pc = "raised").   *)

\* lines 259-287: tab 1 calls analyze_smart_money outside any try
Tab1_TrapDetector ==
    /\ pc = "tab1"
    /\ trap' = analyze_smart_money(fii_L, fii_S, dii_L, dii_S, cli_L, cli_S)
    /\ pc' = IF trap'.raised = "" THEN "tab2" ELSE "raised"
    /\ UNCHANGED <<fii_L, fii_S, dii_L, dii_S, cli_L, cli_S>>
    /\ UNCHANGED <<tickerVars, scanVars, gannVars, runVars>>

\* lines 290-368: tab 2, "Scout Sectors" clicked or not
Tab2_SectorCompass ==
    /\ pc = "tab2"
    /\ \/ UNCHANGED <<button, data, res>>
       \/ /\ button = ""
          /\ button' = "Scout Sectors"
          /\ \E d \in RunCompassData :
                /\ data' = d
                /\ res' = CompassRows(d, Len(secs))
    /\ pc' = "tab3"
    /\ UNCHANGED <<t_l, sens, lev_h, lev_l, h_data>>
    /\ UNCHANGED <<trapVars, tickerVars, gannVars>>

\* lines 371-410: tab 3, "Run Stage 2 Analysis" clicked or not
Tab3_Stage2 ==
    /\ pc = "tab3"
    /\ \/ UNCHANGED <<button, t_l, data, res>>
       \/ /\ button = ""
          /\ button' = "Run Stage 2 Analysis"
          /\ \E text \in RunStageTexts :
                /\ t_l' = Tickers(text)
                /\ \E d \in RunStageData(t_l') :
                      /\ data' = d
                      /\ res' = StageRows(d, t_l', Len(t_l'))
    /\ pc' = "tab4"
    /\ UNCHANGED <<sens, lev_h, lev_l, h_data>>
    /\ UNCHANGED <<trapVars, tickerVars, gannVars>>

\* lines 413-453: tab 4 reads the slider, "Scan Hype" clicked or not
Tab4_HypeMeter ==
    /\ pc = "tab4"
    /\ \E stop \in RunStops :
          /\ sens' = stop
          /\ \/ UNCHANGED <<button, t_l, data, res>>
             \/ /\ button = ""
                /\ button' = "Scan Hype"
                /\ \E text \in HypeTexts :
                      /\ t_l' = Tickers(text)
                      /\ \E d \in RunHypeData(t_l') :
                            /\ data' = d
                            /\ res' = HypeRows(d, t_l', stop, Len(t_l'))
    /\ pc' = "tab5"
    /\ UNCHANGED <<lev_h, lev_l, h_data>>
    /\ UNCHANGED <<trapVars, tickerVars, gannVars>>

\* lines 456-460: tab 5, "Fetch News" clicked or not; fetch_market_news
\* (lines 63-74) returns a list, the empty one when the feed fails
Tab5_News ==
    /\ pc = "tab5"
    /\ \/ UNCHANGED button
       \/ button = "" /\ button' = "Fetch News"
    /\ pc' = "tab6"
    /\ UNCHANGED <<lev_h, lev_l, h_data>>
    /\ UNCHANGED <<trapVars, tickerVars, scanVars, gannVars>>

\* lines 463-498: tab 6 normalizes the text of the box, "Calculate Levels"
\* clicked or not; an empty history shows nothing
Tab6_Gann ==
    /\ pc = "tab6"
    /\ \E text \in GannTexts :
          /\ symbol' = text
          /\ ticker' = fix_ticker(text)
    /\ \/ UNCHANGED <<button, lev_h, lev_l>>
       \/ /\ button = ""
          /\ button' = "Calculate Levels"
          /\ \E d \in GannHistory :
                IF d = <<>>
                THEN UNCHANGED <<lev_h, lev_l>>
                ELSE /\ lev_h' = calculate_gann_levels(ColumnMax(d, Len(d)))
                     /\ lev_l' = calculate_gann_levels(ColumnMin(d, Len(d)))
    /\ pc' = "tab7"
    /\ UNCHANGED h_data
    /\ UNCHANGED <<trapVars, scanVars, gannVars>>

\* lines 501-621: tab 7, "Generate Map" clicked or not (the symbols of the
\* chosen list are kept in t_l, where the script has ticks)
Tab7_Heatmap ==
    /\ pc = "tab7"
    /\ \/ UNCHANGED <<button, t_l, data, h_data>>
       \/ /\ button = ""
          /\ button' = "Generate Map"
          /\ \E sel \in DOMAIN lists :
                /\ t_l' = Ticks(sel)
                /\ \E d \in HeatData(t_l') :
                      /\ data' = d
                      /\ h_data' = HeatRows(d, t_l', Len(t_l'))
    /\ pc' = "tab8"
    /\ UNCHANGED <<sens, res, lev_h, lev_l>>
    /\ UNCHANGED <<trapVars, tickerVars, gannVars>>

\* lines 624-635: tab 8, "Scan Global Assets" clicked or not (the frame
\* fetch_commodities downloads is kept in data)
Tab8_GlobalMacro ==
    /\ pc = "tab8"
    /\ \/ UNCHANGED <<button, data, res>>
       \/ /\ button = ""
          /\ button' = "Scan Global Assets"
          /\ \E d \in MacroData :
                /\ data' = d
                /\ res' = fetch_commodities(d)
    /\ pc' = "end"
    /\ UNCHANGED <<t_l, sens, lev_h, lev_l, h_data>>
    /\ UNCHANGED <<trapVars, tickerVars, gannVars>>

\* the state the sidebar (lines 230-240) leaves when tab 1 starts
InitRun ==
    /\ pc = "tab1"
    /\ Sidebar /\ trap = NoTrap
    /\ TickerIdle /\ ScanIdle /\ GannIdle /\ RunIdle

NextRun ==
    \/ Tab1_TrapDetector
    \/ Tab2_SectorCompass
    \/ Tab3_Stage2
    \/ Tab4_HypeMeter
    \/ Tab5_News
    \/ Tab6_Gann
    \/ Tab7_Heatmap
    \/ Tab8_GlobalMacro

SpecRun == InitRun /\ [][NextRun]_vars

-----------------------------------------------------------------------------
(* Properties of tab 1 *)

TrapRan == pc \in {"returned", "raised"}

total_fii == fii_L + fii_S
total_dii == dii_L + dii_S
total_cli == cli_L + cli_S

AllTotalsNonZero == total_fii # 0 /\ total_dii # 0 /\ total_cli # 0

\* C1: whenever any of the three class totals is zero, the call returns the
\* WAITING / gray sentinel with the three percentages 0 and raises nothing.
C1_AnyZeroTotalIsWaiting ==
    (TrapRan /\ ~AllTotalsNonZero) =>
        /\ trap.raised = ""
        /\ trap.signal = "WAITING" /\ trap.color = "gray"
        /\ FEq(trap.fii_bull, Num(0))
        /\ FEq(trap.dii_bull, Num(0))
        /\ FEq(trap.cli_bull, Num(0))

\* the claim's own reading of the thresholds, on the raw counts
ClaimBullish == /\ fii_L * 100 > 60 * total_fii
                /\ dii_L * 100 > 60 * total_dii
ClaimBearish == /\ fii_L * 100 < 40 * total_fii
                /\ dii_L * 100 < 40 * total_dii
ClaimLabel ==
    IF ClaimBullish
    THEN IF cli_L * 100 < 40 * total_cli THEN "SMART RALLY (Buy Dips)"
         ELSE "UPTREND (Crowded)"
    ELSE IF ClaimBearish
    THEN IF cli_L * 100 > 60 * total_cli THEN "BRUTAL CRASH AHEAD"
         ELSE "DOWNTREND"
    ELSE "CHOPPY / RANGEBOUND"

\* C2: with all three totals non-zero the trend is bullish exactly when both
\* institutional percentages are strictly above 60, bearish exactly when both
\* are strictly below 40, mixed otherwise, and the label follows the client
\* percentage as the claim lists; 60 and 40 themselves are neither.
C2_TrendAndLabel ==
    (TrapRan /\ AllTotalsNonZero) =>
        /\ trap.raised = ""
        /\ trap.signal = ClaimLabel

\* C2 witness: FII exactly 60% bullish and DII above 60: the call answered CHOPPY
C2_Witness ==
    /\ TrapRan /\ AllTotalsNonZero
    /\ fii_L * 100 = 60 * total_fii
    /\ dii_L * 100 > 60 * total_dii
    /\ trap.signal = "CHOPPY / RANGEBOUND"

SignalLabels == {"CHOPPY / RANGEBOUND", "SMART RALLY (Buy Dips)",
                 "UPTREND (Crowded)", "BRUTAL CRASH AHEAD", "DOWNTREND"}

InPercentRange(x) == FGe(x, Num(0)) /\ FLe(x, Num(100))

\* C3: with all three totals non-zero the three percentages lie in [0,100] and
\* the label is one of the five signal labels, never the placeholder NEUTRAL.
C3_RangeAndLabelSet ==
    (TrapRan /\ AllTotalsNonZero) =>
        /\ InPercentRange(trap.fii_bull)
        /\ InPercentRange(trap.dii_bull)
        /\ InPercentRange(trap.cli_bull)
        /\ trap.signal \in SignalLabels

\* C3 witness: institutions bullish, clients between 40% and 60%: UPTREND, with
\* a percentage at each end of the range
C3_Witness ==
    /\ TrapRan /\ AllTotalsNonZero
    /\ trap.signal = "UPTREND (Crowded)"
    /\ FEq(trap.fii_bull, Num(100))
    /\ FEq(trap.cli_bull, Num(50))

-----------------------------------------------------------------------------
(* Properties of fix_ticker *)

niftybank == <<"n","i","f","t","y","b","a","n","k">>
reliance_padded == <<" ","r","e","l","i","a","n","c","e"," ">>
NSEBANK == <<"^","N","S","E","B","A","N","K">>
RELIANCE_NS == <<"R","E","L","I","A","N","C","E",".","N","S">>

\* the four steps of the claim, applied to the argument
TickerRule ==
    LET s  == upper(strip(symbol))
        s2 == IF s \in DOMAIN name_map THEN name_map[s] ELSE s
    IN  /\ (endswith(s2, DotNS) \/ endswith(s2, DotBO) \/ startswith(s2, Caret))
            => ticker = s2
        /\ ~(endswith(s2, DotNS) \/ endswith(s2, DotBO) \/ startswith(s2, Caret))
            => ticker = s2 \o DotNS

\* C4: fix_ticker trims, upper-cases, substitutes an alias, keeps a result that
\* ends in .NS or .BO or starts with ^ and appends .NS otherwise; "niftybank"
\* gives ^NSEBANK and " reliance " gives RELIANCE.NS.
C4_NormalizerScenario ==
    pc = "returned" =>
        /\ TickerRule
        /\ symbol = niftybank => ticker = NSEBANK
        /\ symbol = reliance_padded => ticker = RELIANCE_NS


HDFCBANK_NS == <<"H","D","F","C","B","A","N","K",".","N","S">>

\* a string a second normalization has nothing to do on: trimmed, upper-cased,
\* no key of the alias table, and starting with ^ or ending in .NS or .BO
Normalized_form(t) ==
    /\ strip(t) = t
    /\ upper(t) = t
    /\ t \notin DOMAIN name_map
    /\ startswith(t, Caret) \/ endswith(t, DotNS) \/ endswith(t, DotBO)

\* C12: fix_ticker is idempotent: every result is trimmed, upper-cased, no
\* alias key and starts with ^ or ends in .NS or .BO, and a second call, made
\* on the result of the first, returns its argument.
C12_Idempotent ==
    /\ pc = "returned" => Normalized_form(ticker)
    /\ pc = "again" => ticker = symbol

\* the second call made on the result an alias gave: "hdfc" became
\* HDFCBANK.NS and stays HDFCBANK.NS
C12_Witness ==
    pc = "again" /\ symbol = HDFCBANK_NS /\ ticker = HDFCBANK_NS

-----------------------------------------------------------------------------
(* Properties of the Sector Compass *)

IsNumber(x) == ~IsNaN(x)

Hundred == Num(100)

RowsOf(name) == {i \in 1..Len(res) : res[i].n = name}

CompassRan == pc = "done" /\ data # NoData

\* the quadrant the claim gives a pair of numbers, ratio = 100 counted with
\* the "ratio < 100" branch
ClaimQuadrant(ratio, mom) ==
    IF FGt(ratio, Hundred)
    THEN IF FGt(mom, Hundred) THEN "Leading" ELSE "Weakening"
    ELSE IF FLt(mom, Hundred) THEN "Lagging" ELSE "Improving"

\* C5 as claimed: every pair of numbers gets the quadrant of the 2x2 split
\* around 100, a ratio of exactly 100 being Lagging when momentum < 100 and
\* Improving when momentum >= 100.
C5_QuadrantAsClaimed ==
    CompassRan =>
        \A i \in 1..Len(res) :
            (IsNumber(res[i].ratio) /\ IsNumber(res[i].mom)) =>
                res[i].q = ClaimQuadrant(res[i].ratio, res[i].mom)

\* C5 amended: every pair of numbers gets exactly one quadrant: Leading for
\* ratio > 100 and momentum > 100, Weakening for ratio > 100 and momentum
\* <= 100, Lagging for ratio < 100 and momentum < 100, Improving for ratio
\* < 100 and momentum >= 100, and Improving for a ratio of exactly 100
\* whatever the momentum.
C5_QuadrantTable ==
    CompassRan =>
        \A i \in 1..Len(res) :
            LET r == res[i].ratio
                m == res[i].mom
            IN  (IsNumber(r) /\ IsNumber(m)) =>
                  /\ res[i].q \in {"Leading", "Weakening", "Lagging", "Improving"}
                  /\ (FGt(r, Hundred) /\ FGt(m, Hundred)) => res[i].q = "Leading"
                  /\ (FGt(r, Hundred) /\ FLe(m, Hundred)) => res[i].q = "Weakening"
                  /\ (FLt(r, Hundred) /\ FLt(m, Hundred)) => res[i].q = "Lagging"
                  /\ (FLt(r, Hundred) /\ FGe(m, Hundred)) => res[i].q = "Improving"
                  /\ FEq(r, Hundred) => res[i].q = "Improving"

\* C5 witness: a row with ratio exactly 100 and momentum below 100 was
\* appended as Improving
C5_Witness ==
    /\ CompassRan
    /\ \E i \in 1..Len(res) :
          /\ FEq(res[i].ratio, Hundred)
          /\ FLt(res[i].mom, Hundred)
          /\ res[i].q = "Improving"

\* the bars of a sector that line up with a benchmark bar
AlignedBars(d, sec) ==
    IF sec.t \notin DOMAIN d \/ Code_NSEI \notin DOMAIN d THEN 0
    ELSE Cardinality({k \in 1..Len(d[sec.t].Close) :
                         /\ IsNumber(d[sec.t].Close[k])
                         /\ IsNumber(d[Code_NSEI].Close[k])})

\* C6: a sector with fewer than 20 + 10 bars aligned with the benchmark gets
\* no row, and a row is appended only when ratio and momentum are numbers.
C6_ShortSeriesOmitted ==
    CompassRan =>
        /\ \A s \in 1..Len(secs) :
              AlignedBars(data, secs[s]) < Window + Lag => RowsOf(secs[s].n) = {}
        /\ \A i \in 1..Len(res) : IsNumber(res[i].ratio) /\ IsNumber(res[i].mom)

\* the sector column is the benchmark column, with at least 30 bars
SelfCompared(d, sec) ==
    /\ sec.t \in DOMAIN d /\ Code_NSEI \in DOMAIN d
    /\ d[sec.t].Close = d[Code_NSEI].Close
    /\ Len(d[sec.t].Close) >= Window + Lag
    /\ \A k \in 1..Len(d[sec.t].Close) : FGt(d[sec.t].Close[k], Num(0))

\* C7: a sector series identical to a benchmark of at least 30 positive bars
\* has relative strength 100 at every bar, ratio 100 at every bar from the
\* 20th on and momentum 100 at every bar from the 30th on, and the row the
\* code appends for it (read at the latest bar) has ratio 100 and momentum 100.
C7_SelfComparisonNeutral ==
    CompassRan =>
        \A s \in 1..Len(secs) :
            SelfCompared(data, secs[s]) =>
                LET rs == RelStrength(data[secs[s].t].Close, data[Code_NSEI].Close)
                IN  /\ \A k \in 1..Len(rs) : FEq(rs[k], Hundred)
                    /\ \A k \in Window..Len(rs) : FEq(RatioAt(rs, k), Hundred)
                    /\ \A k \in (Window + Lag)..Len(rs) :
                          FEq(MomentumAt(rs, k), Hundred)
                    /\ \E i \in RowsOf(secs[s].n) :
                          /\ FEq(res[i].ratio, Hundred)
                          /\ FEq(res[i].mom, Hundred)

\* C7 witness: a benchmark that moves, compared with itself over more than
\* 30 bars, gave a row at 100 / 100
C7_Witness ==
    /\ CompassRan
    /\ SelfCompared(data, secs[1])
    /\ Len(data[Code_NSEI].Close) > Window + Lag
    /\ \E j, k \in 1..Len(data[Code_NSEI].Close) :
          data[Code_NSEI].Close[j] # data[Code_NSEI].Close[k]
    /\ \E i \in RowsOf(secs[1].n) :
          FEq(res[i].ratio, Hundred) /\ FEq(res[i].mom, Hundred)

-----------------------------------------------------------------------------
(* Properties of the Stage 2 scanner *)

StageRan == pc = "done" /\ data # NoData

Qualifying == {"Early Entry", "Strong Trend", "Overheated"}

\* the 30-period moving average as it stood 5 periods before the latest bar
EarlierAverage(close) == RollingMean(close, StageWindow, Len(close) - 5)

\* the confirmed-uptrend gate: close above the average, average above its
\* value 5 periods earlier
UptrendGate(close) ==
    /\ FGt(close[Len(close)], MovingAverage(close))
    /\ FGt(MovingAverage(close), EarlierAverage(close))

\* C8: a row carries a qualifying label (Early Entry, Strong Trend,
\* Overheated) only if the latest close is above the latest 30-period average
\* and that average is strictly above its own value 5 periods earlier.
C8_QualifyingNeedsRisingAverage ==
    StageRan =>
        \A i \in 1..Len(res) : \A t \in DOMAIN data :
            (res[i].stock = replace(t, DotNS) /\ res[i].status \in Qualifying)
                => UptrendGate(data[t].Close)

-----------------------------------------------------------------------------
(* Properties of the Hype Meter *)

HypeRan == pc = "done" /\ data # NoData

\* a 20-bar series whose last volume is a non-zero number, exactly 6 times the
\* mean of the other 19 volumes
SixfoldSpike(df) ==
    LET n == Len(df.Volume)
    IN  /\ n = 20
        /\ \A k \in 1..n : IsNumber(df.Volume[k])
        /\ FGt(df.Volume[n], Num(0))
        /\ FEq(df.Volume[n],
               FMul(Num(6), FDiv(SumRange(df.Volume, 1, n - 1), Num(n - 1))))

HypeRowsOf(t) == {i \in 1..Len(res) : res[i].stock = t}

\* C9 as claimed: with threshold 1.0 such a series gets a row whose spike
\* factor is 6.0 and whose tag is EXPLOSIVE.
C9_SixfoldIsExplosive ==
    (HypeRan /\ FEq(sens, Num(1))) =>
        \A t \in DOMAIN data :
            SixfoldSpike(data[t]) =>
                \E i \in HypeRowsOf(t) :
                    FEq(res[i].fac, Num(6)) /\ res[i].tag = "EXPLOSIVE"

\* C9 amended: with threshold 1.0 such a series gets a row; its spike factor
\* is 4.8 (the last volume over the mean of all 20 bars, the last one
\* included: 6m / 1.25m) and its tag is HOT, the '> 2x' band.
C9_SixfoldIsHot ==
    (HypeRan /\ FEq(sens, Num(1))) =>
        \A t \in DOMAIN data :
            SixfoldSpike(data[t]) =>
                /\ HypeRowsOf(t) # {}
                /\ \A i \in HypeRowsOf(t) :
                      /\ FEq(res[i].fac, Rat(48, 10))
                      /\ res[i].tag = "HOT"

\* C9 witness: the threshold is 1.0, a symbol's other 19 volumes are not all
\* alike and average 2, its last volume is 12, and its row says 4.8, HOT
C9_Witness ==
    /\ HypeRan /\ FEq(sens, Num(1))
    /\ \E t \in DOMAIN data :
          /\ SixfoldSpike(data[t])
          /\ data[t].Volume[1] # data[t].Volume[19]
          /\ \E i \in HypeRowsOf(t) :
                FEq(res[i].fac, Rat(48, 10)) /\ res[i].tag = "HOT"

-----------------------------------------------------------------------------
(* Properties of calculate_gann_levels *)

GannRan == pc = "returned" /\ levels # <<>>

\* the nine values of the claim, from s = sqrt(p), in millionths
ClaimLevels(cents) ==
    LET s == Sqrt(cents)
        off == << -2000, -1000, -500, -250, 0, 250, 500, 1000, 2000 >>
    IN  [i \in 1..9 |-> IF i = 5 THEN cents * 10000
                        ELSE (s + off[i]) * (s + off[i])]

\* C10: for a positive anchor price p the call returns exactly 9 values, in
\* the order (s-2)^2, (s-1)^2, (s-0.5)^2, (s-0.25)^2, p, (s+0.25)^2,
\* (s+0.5)^2, (s+1)^2, (s+2)^2; the value at index 4 is p itself (100 for
\* p = 100); and for every p > 4 the 9 values are strictly increasing.
C10_NineLevels ==
    GannRan =>
        /\ Len(levels) = 9
        /\ levels = ClaimLevels(price)
        /\ levels[5] = price * 10000
        /\ price = 10000 => levels[5] = 100 * 1000000
        /\ price > 400 => \A i \in 1..8 : levels[i] < levels[i + 1]

\* C10 witness: the levels of 100.00 are 64, 81, 90.25, 95.0625, 100,
\* 105.0625, 110.25, 121, 144
C10_Witness ==
    /\ GannRan
    /\ price = 10000
    /\ levels = << 64000000, 81000000, 90250000, 95062500, 100000000,
                   105062500, 110250000, 121000000, 144000000 >>

-----------------------------------------------------------------------------
(* C11: failures are local to their component *)

\* the clicked handler has run when its button is recorded
Clicked(b) == button = b

\* a sector whose own column and the benchmark arrived has its row
SectorsKept ==
    Clicked("Scout Sectors") =>
        \A i \in 1..Len(secs) :
            (secs[i].t \in DOMAIN data /\ Code_NSEI \in DOMAIN data)
                => \E r \in 1..Len(res) : res[r].n = secs[i].n

\* a symbol whose own column arrived with 30 rows or more has its row
StocksKept ==
    Clicked("Run Stage 2 Analysis") =>
        \A i \in 1..Len(t_l) :
            (t_l[i] \in DOMAIN data /\ Len(data[t_l[i]].Close) >= MinBars)
                => \E r \in 1..Len(res) : res[r].stock = replace(t_l[i], DotNS)

\* a symbol whose own columns arrived with 5 rows or more and whose spike
\* factor is above the slider has its row
SpikesKept ==
    Clicked("Scan Hype") =>
        \A i \in 1..Len(t_l) :
            (/\ t_l[i] \in DOMAIN data
             /\ Len(data[t_l[i]].Volume) >= HypeMinBars
             /\ FGt(SpikeFactor(data[t_l[i]]), sens))
                => \E r \in 1..Len(res) : res[r].stock = t_l[i]

\* a symbol whose own column arrived with two closes to compare has its tile
TilesKept ==
    Clicked("Generate Map") =>
        \A i \in 1..Len(t_l) :
            (/\ t_l[i] \in DOMAIN data
             /\ LET close == data[t_l[i]].Close
                IN  \/ Len(close) >= 3
                    \/ Len(close) = 2 /\ IsNumber(close[2]))
                => \E r \in 1..Len(h_data) :
                       h_data[r].Ticker = replace(t_l[i], DotNS)

\* an asset whose own column arrived with two rows or more has its row
AssetsKept ==
    Clicked("Scan Global Assets") =>
        \A i \in 1..Len(tickers) :
            (/\ tickers[i].ticker \in DOMAIN data
             /\ Len(data[tickers[i].ticker].Close) >= 2)
                => \E r \in 1..Len(res) : res[r].name = tickers[i].name

=============================================================================
